---- MODULE Spec2Model ----
(***************************************************************************)
(* paper/plot_benchmarks.py of nanoq: main() loads every file of the       *)
(* directory benchmarks/ (read_data), summarises the combined table        *)
(* (get_data_summary), writes benchmark_summary.tsv and renders two        *)
(* images (plot_data).                                                     *)
(*                                                                         *)
(* A string is the sequence of its characters, so that str.split,          *)
(* str.endswith, the f-string 'zymo_{mode}' and the ordering of group keys *)
(* are computed, not assumed.  A number is a float64: sign, 53-bit         *)
(* mantissa and exponent, every operation rounded to nearest, ties to      *)
(* even; the mantissa is kept in base-8192 digits because it does not fit  *)
(* the integers of TLC.                                                    *)
(***************************************************************************)
EXTENDS Integers, Sequences, FiniteSets, TLC

VARIABLES dir, pending, frames, prov, data, summary, written, pc, err

vars == <<dir, pending, frames, prov, data, summary, written, pc, err>>

\* ------------------------------------------------------------- bounds
\* The largest number of files in benchmarks/.
MaxFiles == 3
\* The largest number of rows of an input file.
MaxRows == 13

\* ------------------------------------------------------------- strings
\* Python compares strings by code point: '-' < digits < '_' < lowercase.
Alphabet == <<"-","0","1","2","3","4","5","6","7","8","9","_","a","b","c","d","e","f","g","h","i","j","k","l","m","n","o","p","q","r","s","t","u","v","w","x","y","z">>

Ord(c) == CHOOSE i \in 1..Len(Alphabet) : Alphabet[i] = c

\* s < t for Python strings (lexicographic on code points).
RECURSIVE StrLess(_, _)
StrLess(s, t) ==
    IF t = <<>> THEN FALSE
    ELSE IF s = <<>> THEN TRUE
    ELSE IF Head(s) = Head(t) THEN StrLess(Tail(s), Tail(t))
    ELSE Ord(Head(s)) < Ord(Head(t))

\* s.split("_"): the pieces between the underscores (always one piece at least).
RECURSIVE SplitFrom(_, _, _)
SplitFrom(s, i, cur) ==
    IF i > Len(s) THEN <<cur>>
    ELSE IF s[i] = "_" THEN <<cur>> \o SplitFrom(s, i + 1, <<>>)
    ELSE SplitFrom(s, i + 1, Append(cur, s[i]))

Split(s) == SplitFrom(s, 1, <<>>)

\* s.endswith(suffix)
EndsWith(s, suffix) ==
    /\ Len(s) >= Len(suffix)
    /\ SubSeq(s, Len(s) - Len(suffix) + 1, Len(s)) = suffix

\* ------------------------------------------------------------- numbers
Min(a, b) == IF a < b THEN a ELSE b

\* A natural number of any size is the sequence of its digits in base Base,
\* least significant first, without leading zeros; 0 is <<>>.
Base == 8192

LimbBits == 13

RECURSIVE Trim(_)
Trim(a) ==
    IF a = <<>> THEN <<>>
    ELSE IF a[Len(a)] = 0 THEN Trim(SubSeq(a, 1, Len(a) - 1))
    ELSE a

RECURSIVE Big(_)
Big(n) == IF n = 0 THEN <<>> ELSE <<n % Base>> \o Big(n \div Base)

RECURSIVE AddCarry(_, _, _)
AddCarry(a, b, c) ==
    IF a = <<>> /\ b = <<>> THEN (IF c = 0 THEN <<>> ELSE <<c>>)
    ELSE LET x == (IF a = <<>> THEN 0 ELSE Head(a)) + (IF b = <<>> THEN 0 ELSE Head(b)) + c
         IN  <<x % Base>> \o AddCarry(IF a = <<>> THEN <<>> ELSE Tail(a),
                                      IF b = <<>> THEN <<>> ELSE Tail(b), x \div Base)

BigAdd(a, b) == AddCarry(a, b, 0)

\* a - b for a >= b.
RECURSIVE SubBorrow(_, _, _)
SubBorrow(a, b, c) ==
    IF a = <<>> THEN <<>>
    ELSE LET x == Head(a) - (IF b = <<>> THEN 0 ELSE Head(b)) - c
         IN  <<x % Base>> \o SubBorrow(Tail(a), IF b = <<>> THEN <<>> ELSE Tail(b),
                                       IF x < 0 THEN 1 ELSE 0)

BigSub(a, b) == Trim(SubBorrow(a, b, 0))

\* -1, 0, 1 as a < b, a = b, a > b.
RECURSIVE CmpFrom(_, _, _)
CmpFrom(a, b, i) ==
    IF i = 0 THEN 0
    ELSE IF a[i] < b[i] THEN -1
    ELSE IF a[i] > b[i] THEN 1
    ELSE CmpFrom(a, b, i - 1)

BigCmp(a, b) ==
    IF Len(a) < Len(b) THEN -1
    ELSE IF Len(a) > Len(b) THEN 1
    ELSE CmpFrom(a, b, Len(a))

\* a * k for 0 <= k <= Base.
RECURSIVE MulCarry(_, _, _)
MulCarry(a, k, c) ==
    IF a = <<>> THEN (IF c = 0 THEN <<>> ELSE <<c>>)
    ELSE LET x == Head(a) * k + c
         IN  <<x % Base>> \o MulCarry(Tail(a), k, x \div Base)

BigMulSmall(a, k) == IF k = 0 THEN <<>> ELSE MulCarry(a, k, 0)

ShiftLimb(a) == IF a = <<>> THEN <<>> ELSE <<0>> \o a

RECURSIVE BigMul(_, _)
BigMul(a, b) ==
    IF b = <<>> THEN <<>>
    ELSE BigAdd(BigMulSmall(a, Head(b)), ShiftLimb(BigMul(a, Tail(b))))

\* Quotient and remainder of a by k, 0 < k <= Base.
RECURSIVE DivRem(_, _)
DivRem(a, k) ==
    IF a = <<>> THEN [q |-> <<>>, r |-> 0]
    ELSE LET hi  == DivRem(Tail(a), k)
             cur == hi.r * Base + Head(a)
         IN  [q |-> <<cur \div k>> \o hi.q, r |-> cur % k]

TrimQuotient(d) == [q |-> Trim(d.q), r |-> d.r]

BigDivSmall(a, k) == TrimQuotient(DivRem(a, k))

\* a * 2^d
ShiftLeft(a, d) ==
    IF a = <<>> \/ d = 0 THEN a
    ELSE [i \in 1..(d \div LimbBits) |-> 0] \o BigMulSmall(a, 2 ^ (d % LimbBits))

\* floor(a / 2^d)
FloorShr(a, d) ==
    IF d = 0 THEN a
    ELSE BigDivSmall(SubSeq(a, (d \div LimbBits) + 1, Len(a)), 2 ^ (d % LimbBits)).q

RECURSIVE BitLenSmall(_)
BitLenSmall(n) == IF n = 0 THEN 0 ELSE 1 + BitLenSmall(n \div 2)

BitLen(a) == IF a = <<>> THEN 0 ELSE LimbBits * (Len(a) - 1) + BitLenSmall(a[Len(a)])

RECURSIVE TrailingZerosSmall(_)
TrailingZerosSmall(n) == IF n % 2 = 1 THEN 0 ELSE 1 + TrailingZerosSmall(n \div 2)

\* The number of trailing zero bits of a > 0.
RECURSIVE TrailingZeros(_)
TrailingZeros(a) ==
    IF Head(a) = 0 THEN LimbBits + TrailingZeros(Tail(a))
    ELSE TrailingZerosSmall(Head(a))

\* A float64 that is not NaN is (-1)^neg * m * 2^e with m odd and below 2^53,
\* or zero (m = <<>>, e = 0); the exponent range is not modelled.
NaN == [nan |-> TRUE, neg |-> FALSE, m |-> <<>>, e |-> 0]

Zero == [nan |-> FALSE, neg |-> FALSE, m |-> <<>>, e |-> 0]

IsNaN(x) == x.nan

MantissaBits == 53

\* The float64 with the value (-1)^neg * M * 2^E exactly (M below 2^53 times a
\* power of two).
Exact(neg, M, E) ==
    IF M = <<>> THEN Zero
    ELSE LET tz == TrailingZeros(M)
         IN  [nan |-> FALSE, neg |-> neg, m |-> FloorShr(M, tz), e |-> E + tz]

\* floor((2q + b + s) / 2) rounded to nearest, ties to even, for h = 2q + b
\* with b the bit below the last kept one: up when b = 1 and either something
\* lies below b or q is odd.
Halve(h, below) ==
    LET up == Head(h) % 2 = 1 /\ (below \/ (Head(h) \div 2) % 2 = 1)
    IN  BigDivSmall(IF up THEN BigAdd(h, <<1>>) ELSE h, 2).q

\* M + s with its d lowest bits rounded away.
Nearest(M, d, sticky) ==
    IF d = 0 THEN M
    ELSE Halve(FloorShr(M, d - 1), sticky \/ TrailingZeros(M) < d - 1)

RoundBy(neg, M, E, sticky, d) == Exact(neg, Nearest(M, d, sticky), E + d)

\* The float64 nearest to (-1)^neg * (M + s) * 2^E, ties to even, where s is
\* in [0, 1) and sticky says s > 0; with sticky, M has more than 54 bits.
Round(neg, M, E, sticky) ==
    RoundBy(neg, M, E, sticky,
            IF BitLen(M) <= MantissaBits THEN 0 ELSE BitLen(M) - MantissaBits)

Num(i) == Exact(i < 0, Big(IF i < 0 THEN -i ELSE i), 0)

Neg(x) == IF IsNaN(x) \/ x.m = <<>> THEN x ELSE [x EXCEPT !.neg = ~x.neg]

RoundSigned(r, e) == Round(r.neg, r.M, e, FALSE)

\* (-1)^xn * X + (-1)^yn * Y, times 2^e
AddAligned(xn, X, yn, Y, e) ==
    RoundSigned(IF xn = yn THEN [neg |-> xn, M |-> BigAdd(X, Y)]
                ELSE IF BigCmp(X, Y) >= 0 THEN [neg |-> xn, M |-> BigSub(X, Y)]
                ELSE [neg |-> yn, M |-> BigSub(Y, X)], e)

AlignTo(x, e) == ShiftLeft(x.m, x.e - e)

AddAt(x, y, e) == AddAligned(x.neg, AlignTo(x, e), y.neg, AlignTo(y, e), e)

\* x + y
Plus(x, y) == IF IsNaN(x) \/ IsNaN(y) THEN NaN ELSE AddAt(x, y, Min(x.e, y.e))

Minus(x, y) == Plus(x, Neg(y))

Times(x, y) ==
    IF IsNaN(x) \/ IsNaN(y) THEN NaN
    ELSE Round(x.neg # y.neg, BigMul(x.m, y.m), x.e + y.e, FALSE)

GuardBits == 70

\* D is m divided by the odd part of k, Q is m * 2^GuardBits divided by k.
Quotient(neg, e, tz, D, Q) ==
    IF D.r = 0 THEN [neg |-> neg, M |-> D.q, e |-> e - tz, sticky |-> FALSE]
    ELSE [neg |-> neg, M |-> Q.q, e |-> e - GuardBits, sticky |-> TRUE]

RoundQuotient(c) == Round(c.neg, c.M, c.e, c.sticky)

OddPart(k) == k \div (2 ^ TrailingZerosSmall(k))

\* x / k for an integer k, 0 < k <= Base: the quotient when it is a float64,
\* else the quotient carried to GuardBits more bits and rounded.
DivBy(x, k) ==
    IF IsNaN(x) THEN NaN
    ELSE RoundQuotient(Quotient(x.neg, x.e, TrailingZerosSmall(k),
                                BigDivSmall(x.m, OddPart(k)),
                                BigDivSmall(ShiftLeft(x.m, GuardBits), k)))

\* ------------------------------------------------------------- sequences
RECURSIVE Flatten(_)
Flatten(ss) == IF ss = <<>> THEN <<>> ELSE Head(ss) \o Flatten(Tail(ss))

\* The elements of the set S of strings in ascending order.
RECURSIVE SortSet(_)
SortSet(S) ==
    IF S = {} THEN <<>>
    ELSE LET m == CHOOSE x \in S : \A y \in S \ {x} : StrLess(x, y)
         IN  <<m>> \o SortSet(S \ {m})

\* ------------------------------------------------------------- inputs
\* File names the directory may hold: the three of the paper's gz runs, one per
\* alias token, a third token "full", and names of two and of four tokens.
NameList == <<
    <<"n","a","n","o","q","_","f","i","l","t","_","g","z">>,
    <<"n","a","n","o","q","_","s","t","a","t","_","g","z">>,
    <<"f","i","l","t","l","o","n","g","_","f","i","l","t","_","g","z">>,
    <<"n","a","n","o","s","t","a","t","8","_","s","t","a","t","_","f","q">>,
    <<"n","a","n","o","q","f","_","f","i","l","t","_","f","q">>,
    <<"r","b","t","_","s","t","a","t","_","f","u","l","l">>,
    <<"s","e","q","t","k","_","s","t","a","t","_","g","z">>,
    <<"n","a","n","o","q","_","s","t","a","t">>,
    <<"n","a","n","o","q","_","f","i","l","t","_","g","z","_","f","q">> >>

\* Row counts of an input file: empty, the 11 rows of a gz run, and the two
\* largest counts.
RowCounts == {0, 11} \cup ((MaxRows - 1)..MaxRows)

\* "one": one column (time), the values differ from row to row;
\* "two": two columns (time mem), one time value in the whole file and a
\*        memory of 2,000,000 kilobytes.
Layouts == {"one", "two"}

\* The float64 that the text 67.19 is read as: 1182018980324311 * 2^-44.
Time6719 == [nan |-> FALSE, neg |-> FALSE, m |-> <<983, 2949, 655, 2150>>, e |-> -44]

\* The one time value of file number k in layout "two": 67.19 seconds for the
\* odd-numbered files, k seconds for the others.
ConstTime(k) == IF k % 2 = 1 THEN Time6719 ELSE Num(k)

\* The text of file number k: n lines, line o (from 0) as [time, mem].
Content(k, n, layout) ==
    [i \in 1..n |->
        IF layout = "two"
        THEN [time |-> ConstTime(k), mem |-> Num(2000000)]
        ELSE [time |-> Num(10 * k + (i - 1)), mem |-> NaN]]

File(k, n, layout) == [name |-> NameList[k], rows |-> Content(k, n, layout)]

Directories ==
    { {File(k, sh[1], sh[2]) : k \in S} :
        S \in {T \in SUBSET (1..Len(NameList)) : Cardinality(T) <= MaxFiles},
        sh \in RowCounts \X Layouts }

\* ------------------------------------------------------------- read_data
\* pandas.read_csv(f, header=None, sep=" ", names=['time', 'mem']): a frame
\* with the RangeIndex 0..n-1; a file of no lines raises EmptyDataError.
read_csv(f) ==
    [i \in 1..Len(f.rows) |->
        [idx |-> i - 1, time |-> f.rows[i].time, mem |-> f.rows[i].mem]]

read_csv_raises(f) == Len(f.rows) = 0

\* tool, task, mode = f.name.split("_") unpacks exactly three values.
NTokens == 3

\* Mutant: values beyond the third are ignored instead of refused.
UnpackOk_AtLeast(tokens) == Len(tokens) >= 3

UnpackOk(tokens) == Len(tokens) = NTokens

\* Mutant: the seqtk branch of the chain is missing.
Alias_NoSeqtk(tool) ==
    IF tool = <<"n","a","n","o","s","t","a","t","8">>
    THEN <<"n","a","n","o","s","t","a","t","-","t","8">>
    ELSE IF tool = <<"n","a","n","o","q","f">>
    THEN <<"n","a","n","o","q","-","f","a","s","t">>
    ELSE IF tool = <<"r","b","t">>
    THEN <<"r","u","s","t","-","b","i","o","-","t","o","o","l","s">>
    ELSE tool

\* The if/elif chain on tool.
Alias(tool) ==
    IF tool = <<"n","a","n","o","s","t","a","t","8">>
    THEN <<"n","a","n","o","s","t","a","t","-","t","8">>
    ELSE IF tool = <<"n","a","n","o","q","f">>
    THEN <<"n","a","n","o","q","-","f","a","s","t">>
    ELSE IF tool = <<"r","b","t">>
    THEN <<"r","u","s","t","-","b","i","o","-","t","o","o","l","s">>
    ELSE IF tool = <<"s","e","q","t","k">>
    THEN <<"s","e","q","t","k","-","f","q","c","h","k">>
    ELSE tool

\* df.iloc[start:stop, :]: the rows at offsets start .. stop-1 that exist.
Iloc(df, start, stop) == SubSeq(df, start + 1, Min(stop, Len(df)))

ColdStart == 1

PrimaryStop == 11

SecondaryStart == 12

\* Mutant: the cold-start row is kept, df.iloc[0:10].
PrimarySample_FromZero(df) == Iloc(df, 0, 10)

\* Mutant: the slice stops one row early, df.iloc[1:10].
PrimarySample_Short(df) == Iloc(df, 1, 10)

\* df1 = df.iloc[1:11, :].copy()
PrimarySample(df) == Iloc(df, ColdStart, PrimaryStop)

\* Mutant: the second sample starts one row early, df.iloc[11:].
SecondarySample_From11(df) == Iloc(df, 11, Len(df))

\* df2 = df.iloc[12:, :].copy()
SecondarySample(df) == Iloc(df, SecondaryStart, Len(df))

\* f.name.endswith('fq')
IsFull(name) == EndsWith(name, <<"f","q">>)

\* f'zymo_{mode}'
ZymoLabel(mode) == <<"z","y","m","o","_">> \o mode

ZymoFull == <<"z","y","m","o","_","f","u","l","l">>

\* df['tool'] = ..., df['task'] = ..., df['file'] = ...: the same three values
\* on every row of the frame.
Tag(df, tool, task, file) ==
    [i \in 1..Len(df) |->
        [idx |-> df[i].idx, time |-> df[i].time, mem |-> df[i].mem,
         tool |-> tool, task |-> task, file |-> file]]

\* The frames one iteration of the loop appends to the list.
FramesOf(f) ==
    LET df     == read_csv(f)
        tokens == Split(f.name)
        tool   == Alias(tokens[1])
        df1    == Tag(PrimarySample(df), tool, tokens[2], ZymoLabel(tokens[3]))
        df2    == Tag(SecondarySample(df), tool, tokens[2], ZymoFull)
    IN  IF IsFull(f.name) THEN <<df1, df2>> ELSE <<df1>>

\* History: for every row of Flatten(frames), the file it was read from and
\* whether it belongs to that file's df1 (part 1) or df2 (part 2).
ProvOf(f) ==
    LET fs == FramesOf(f)
    IN  Flatten([j \in 1..Len(fs) |->
                    [i \in 1..Len(fs[j]) |-> [name |-> f.name, part |-> j]]])

Raise(e) ==
    /\ pc' = "failed"
    /\ err' = e
    /\ UNCHANGED <<dir, pending, frames, prov, data, summary, written>>

\* One iteration of `for f in Path('benchmarks').glob("*")`; glob yields the
\* files in an order the file system chooses.
read_data_file(f) ==
    /\ pc = "read_data"
    /\ f \in pending
    /\ IF read_csv_raises(f) THEN Raise("EmptyDataError")
       ELSE IF ~UnpackOk(Split(f.name)) THEN Raise("ValueError: unpack")
       ELSE /\ frames' = frames \o FramesOf(f)
            /\ prov' = prov \o ProvOf(f)
            /\ pending' = pending \ {f}
            /\ UNCHANGED <<dir, data, summary, written, pc, err>>

\* return pandas.concat(data): concat of an empty list raises ValueError.
read_data_return ==
    /\ pc = "read_data"
    /\ pending = {}
    /\ IF frames = <<>> THEN Raise("ValueError: No objects to concatenate")
       ELSE /\ data' = Flatten(frames)
            /\ pc' = "get_data_summary"
            /\ UNCHANGED <<dir, pending, frames, prov, summary, written, err>>

\* ------------------------------------------------------------- get_data_summary
KBPerMB == 1000

\* Mutant: the time column is rescaled as well.
Rescale_AlsoTime(rows) ==
    [i \in 1..Len(rows) |->
        [rows[i] EXCEPT !.mem = DivBy(@, 1000), !.time = DivBy(@, 1000)]]

\* Mutant: the division is applied to a copy and the caller's frame is left
\* in kilobytes.
Rescale_None(rows) == rows

\* data['mem'] = data['mem'] / 1000, on the caller's frame.
Rescale(rows) ==
    [i \in 1..Len(rows) |-> [rows[i] EXCEPT !.mem = DivBy(@, KBPerMB)]]

Keys(rows, col) == {rows[i][col] : i \in 1..Len(rows)}

Group(rows, col, key) == SelectSeq(rows, LAMBDA r : r[col] = key)

\* Mutant: the group of the greatest key is dropped.
groupby_DropLast(rows, col) ==
    LET ks == SortSet(Keys(rows, col))
    IN  [j \in 1..(Len(ks) - 1) |-> [key |-> ks[j], rows |-> Group(rows, col, ks[j])]]

\* rows.groupby(col): one (key, sub-frame) per distinct key, keys ascending.
groupby(rows, col) ==
    LET ks == SortSet(Keys(rows, col))
    IN  [j \in 1..Len(ks) |-> [key |-> ks[j], rows |-> Group(rows, col, ks[j])]]

\* data.sort_values(['task', 'file', 'tool']): a sorted copy, ties in their
\* original order.
sort_values(rows) ==
    LET byTool(r) ==
            LET g == groupby(r, "tool")
            IN  Flatten([c \in 1..Len(g) |-> g[c].rows])
        byFile(r) ==
            LET g == groupby(r, "file")
            IN  Flatten([b \in 1..Len(g) |-> byTool(g[b].rows)])
        byTask == groupby(rows, "task")
    IN  Flatten([a \in 1..Len(byTask) |-> byFile(byTask[a].rows)])

\* The values of a column that are not NaN (pandas skips NaN).
Values(rows, col) ==
    LET present == SelectSeq(rows, LAMBDA r : ~IsNaN(r[col]))
    IN  [i \in 1..Len(present) |-> present[i][col]]

\* The two summations a pandas installation uses: bottleneck adds the values
\* left to right (no block); numpy's pairwise sum (up to 128 values) adds left
\* to right below 8 values and otherwise keeps 8 running sums over the blocks
\* of 8, combines them as a tree and adds the remaining values one by one.
SumOrders == {"bottleneck", "numpy"}

RECURSIVE SumFrom(_, _)
SumFrom(acc, xs) == IF xs = <<>> THEN acc ELSE SumFrom(Plus(acc, Head(xs)), Tail(xs))

\* (r1 + r2) + (r3 + r4) ... : the running sums combined as a tree.
RECURSIVE SumTree(_)
SumTree(rs) ==
    IF Len(rs) = 1 THEN rs[1]
    ELSE Plus(SumTree(SubSeq(rs, 1, Len(rs) \div 2)),
              SumTree(SubSeq(rs, Len(rs) \div 2 + 1, Len(rs))))

\* The running sum j of 8 over the first `blocks` blocks of 8 values.
Lane(xs, j, blocks) == SumFrom(xs[j], [b \in 1..(blocks - 1) |-> xs[8 * b + j]])

Lanes(xs, blocks) == [j \in 1..8 |-> Lane(xs, j, blocks)]

SumPairwise(xs, blocks) ==
    SumFrom(IF blocks = 0 THEN Zero ELSE SumTree(Lanes(xs, blocks)),
            SubSeq(xs, 8 * blocks + 1, Len(xs)))

Sum(order, xs) == SumPairwise(xs, IF order = "bottleneck" THEN 0 ELSE Len(xs) \div 8)

\* Series.mean(): NaN when no value is present.
Mean(order, xs) == IF xs = <<>> THEN NaN ELSE DivBy(Sum(order, xs), Len(xs))

\* numpy.sqrt(x), kept as its radicand: it is 0 exactly when x is 0 and NaN
\* exactly when x is NaN.
Sqrt(x) == [radicand |-> x]

Square(d) == Times(d, d)

\* The squared deviations of xs from m.
Deviations(xs, m) == [i \in 1..Len(xs) |-> Square(Minus(xs[i], m))]

\* The variance of xs with ddof degrees of freedom removed.
Var(order, xs, ddof) ==
    DivBy(Sum(order, Deviations(xs, Mean(order, xs))), Len(xs) - ddof)

\* Mutant: the population standard deviation (ddof = 0).
Std_Population(order, xs) == IF Len(xs) <= 0 THEN Sqrt(NaN) ELSE Sqrt(Var(order, xs, 0))

\* Series.std(): the sample standard deviation (ddof = 1), NaN when fewer than
\* two values are present.
Std(order, xs) == IF Len(xs) <= 1 THEN Sqrt(NaN) ELSE Sqrt(Var(order, xs, 1))

\* The columns of the frames that the loop of read_data appends for one input
\* file, with the memory in megabytes.
ColumnsOf(fr) == {Values(fr, "time"), Values(Rescale(fr), "mem")}

WellNamed == {k \in 1..Len(NameList) : UnpackOk(Split(NameList[k]))}

FramesOfFile(fs) == {fs[j] : j \in 1..Len(fs)}

Columns ==
    UNION { ColumnsOf(fr) :
                fr \in UNION { FramesOfFile(FramesOf(File(k, n, layout))) :
                                  k \in WellNamed, n \in RowCounts, layout \in Layouts } }

AggregateOf(order, xs) ==
    [order |-> order, xs |-> xs, mean |-> Mean(order, xs), sd |-> Std(order, xs)]

\* mean() and std() of those columns, computed once.
Aggregates == { AggregateOf(order, xs) : order \in SumOrders, xs \in Columns }

\* mean() and std() of the column xs: looked up when tabulated, computed
\* otherwise.
Aggregate(order, xs) ==
    IF \E a \in Aggregates : a.order = order /\ a.xs = xs
    THEN CHOOSE a \in Aggregates : a.order = order /\ a.xs = xs
    ELSE AggregateOf(order, xs)

SummaryOf(task, file, tool, time, mem) ==
    [task |-> task, file |-> file, tool |-> tool,
     time |-> time.mean, time_sd |-> time.sd, mem |-> mem.mean, mem_sd |-> mem.sd]

SummaryRow(order, task, file, tool, rows) ==
    SummaryOf(task, file, tool, Aggregate(order, Values(rows, "time")),
              Aggregate(order, Values(rows, "mem")))

\* The three nested groupby loops, appending one summary row per innermost
\* group.
Summarise(order, rows) ==
    LET perTool(task, file, r) ==
            LET g == groupby(r, "tool")
            IN  [c \in 1..Len(g) |-> SummaryRow(order, task, file, g[c].key, g[c].rows)]
        perFile(task, r) ==
            LET g == groupby(r, "file")
            IN  Flatten([b \in 1..Len(g) |-> perTool(task, g[b].key, g[b].rows)])
        byTask == groupby(rows, "task")
    IN  Flatten([a \in 1..Len(byTask) |-> perFile(byTask[a].key, byTask[a].rows)])

\* summary = get_data_summary(data=data)
get_data_summary ==
    /\ pc = "get_data_summary"
    /\ \E rescaled \in {Rescale(data)} :
           /\ data' = rescaled
           /\ \E sorted \in {sort_values(rescaled)}, order \in SumOrders :
                  summary' = Summarise(order, sorted)
    /\ pc' = "to_csv"
    /\ UNCHANGED <<dir, pending, frames, prov, written, err>>

\* print(data); print(summary); summary.to_csv('benchmark_summary.tsv', ...)
to_csv ==
    /\ pc = "to_csv"
    /\ written' = written \cup {"benchmark_summary.tsv"}
    /\ pc' = "plot_data"
    /\ UNCHANGED <<dir, pending, frames, prov, data, summary, err>>

\* plot_data(data=data): reads data, saves the two figures.
plot_data ==
    /\ pc = "plot_data"
    /\ written' = written \cup {"benchmarks_zymo.png", "benchmarks_zymo_full.png"}
    /\ pc' = "done"
    /\ UNCHANGED <<dir, pending, frames, prov, data, summary, err>>

\* ------------------------------------------------------------- main
Init ==
    /\ dir \in Directories
    /\ pending = dir
    /\ frames = <<>>
    /\ prov = <<>>
    /\ data = <<>>
    /\ summary = <<>>
    /\ written = {}
    /\ pc = "read_data"
    /\ err = ""

Next ==
    \/ \E f \in pending : read_data_file(f)
    \/ read_data_return
    \/ get_data_summary
    \/ to_csv
    \/ plot_data

Spec == Init /\ [][Next]_vars

\* ------------------------------------------------------------- vocabulary of the properties
\* read_data has returned the combined table to main.
Loaded == pc \in {"get_data_summary", "to_csv", "plot_data", "done"}

\* get_data_summary has returned.
Summarised == pc \in {"to_csv", "plot_data", "done"}

\* The rows read so far: the list of frames inside read_data, the combined
\* table after it.
Rows == IF Loaded THEN data ELSE Flatten(frames)

\* The rows of the combined table that come from part p of the file named nm,
\* in table order.
Part(nm, p) ==
    LET at == SelectSeq([i \in 1..Len(prov) |-> i],
                        LAMBDA i : prov[i] = [name |-> nm, part |-> p])
    IN  [j \in 1..Len(at) |-> Rows[at[j]]]

\* The line of the input file that row i of the table was read from.
Origin(i) == (CHOOSE f \in dir : f.name = prov[i].name).rows[Rows[i].idx + 1]

Underscores(nm) == Cardinality({i \in 1..Len(nm) : nm[i] = "_"})

\* The name ends with the two characters f, q.
FqSuffix(nm) == Len(nm) >= 2 /\ nm[Len(nm) - 1] = "f" /\ nm[Len(nm)] = "q"

Triple(r) == <<r.task, r.file, r.tool>>

\* ------------------------------------------------------------- C1
\* C1: once read_data has returned, for every input file of 12 or more rows
\* the rows of its primary sample in the combined table are exactly the 10
\* rows at offsets 1..10, in file order and with the file's time values, and
\* no row of the table comes from the file's offset 0.
C1_PrimarySampleExact ==
    Loaded =>
        \A f \in dir :
            Len(f.rows) >= 12 =>
                /\ Len(Part(f.name, 1)) = 10
                /\ \A j \in 1..10 :
                       /\ Part(f.name, 1)[j].idx = j
                       /\ Part(f.name, 1)[j].time = f.rows[j + 1].time
                /\ \A i \in 1..Len(data) :
                       prov[i].name = f.name => data[i].idx # 0

C1_Witness ==
    /\ pc = "done"
    /\ \E f \in dir :
           /\ Len(f.rows) = 13
           /\ f.rows[2].time # f.rows[3].time
           /\ Len(Part(f.name, 1)) = 10

\* ------------------------------------------------------------- C2
\* C2: once read_data has returned, a file whose name ends in 'fq' and that
\* has more than 12 rows contributes a second sample, exactly its rows from
\* offset 12 on, all labelled 'zymo_full', a label its primary sample does not
\* carry; a file whose name does not end in 'fq' contributes no second sample
\* and nothing but its rows at offsets 1..10.
C2_SecondarySample ==
    Loaded =>
        \A f \in dir :
            /\ (FqSuffix(f.name) /\ Len(f.rows) > 12) =>
                   /\ Len(Part(f.name, 2)) = Len(f.rows) - 12
                   /\ \A j \in 1..Len(Part(f.name, 2)) :
                          /\ Part(f.name, 2)[j].idx = 11 + j
                          /\ Part(f.name, 2)[j].time = f.rows[12 + j].time
                          /\ Part(f.name, 2)[j].file = <<"z","y","m","o","_","f","u","l","l">>
                   /\ \A j \in 1..Len(Part(f.name, 1)) :
                          Part(f.name, 1)[j].file # <<"z","y","m","o","_","f","u","l","l">>
            /\ ~FqSuffix(f.name) =>
                   /\ Part(f.name, 2) = <<>>
                   /\ \A i \in 1..Len(data) :
                          prov[i].name = f.name =>
                              prov[i].part = 1 /\ data[i].idx \in 1..10

C2_Witness ==
    /\ pc = "done"
    /\ \E f, g \in dir :
           /\ FqSuffix(f.name) /\ Len(f.rows) = 13 /\ Len(Part(f.name, 2)) = 1
           /\ ~FqSuffix(g.name) /\ Len(Part(g.name, 1)) = 10

\* ------------------------------------------------------------- C3
\* C3: once get_data_summary has returned, every (task, file, tool) triple of
\* a row of the combined table is the triple of exactly one summary row, and
\* every summary row's triple is the triple of some row of the table.
C3_GroupingExact ==
    Summarised =>
        /\ \A i \in 1..Len(data) :
               Cardinality({j \in 1..Len(summary) : Triple(summary[j]) = Triple(data[i])}) = 1
        /\ \A j \in 1..Len(summary) :
               \E i \in 1..Len(data) : Triple(data[i]) = Triple(summary[j])

C3_Witness ==
    /\ pc = "done"
    /\ Len(summary) = 4
    /\ Len(data) > Len(summary)

\* ------------------------------------------------------------- C4
\* C4: every row read from a file carries the file's first token mapped by
\* the alias table (nanostat8 -> nanostat-t8, nanoqf -> nanoq-fast,
\* rbt -> rust-bio-tools, seqtk -> seqtk-fqchk, any other token itself) and
\* the file's second token as its task.
C4_ToolAndTask ==
    \A i \in 1..Len(Rows) :
        LET tokens == Split(prov[i].name)
            t      == tokens[1]
        IN  /\ Rows[i].task = tokens[2]
            /\ Rows[i].tool =
                   CASE t = <<"n","a","n","o","s","t","a","t","8">> ->
                            <<"n","a","n","o","s","t","a","t","-","t","8">>
                     [] t = <<"n","a","n","o","q","f">> ->
                            <<"n","a","n","o","q","-","f","a","s","t">>
                     [] t = <<"r","b","t">> ->
                            <<"r","u","s","t","-","b","i","o","-","t","o","o","l","s">>
                     [] t = <<"s","e","q","t","k">> ->
                            <<"s","e","q","t","k","-","f","q","c","h","k">>
                     [] OTHER -> t

C4_Witness ==
    /\ pc = "done"
    /\ \E i, j \in 1..Len(data) :
           /\ Split(prov[i].name)[1] = <<"s","e","q","t","k">>
           /\ data[i].tool = <<"s","e","q","t","k","-","f","q","c","h","k">>
           /\ Split(prov[j].name)[1] = <<"f","i","l","t","l","o","n","g">>
           /\ data[j].tool = <<"f","i","l","t","l","o","n","g">>

\* ------------------------------------------------------------- C5
\* C5: when some file name of the directory does not hold exactly two
\* underscores (three tokens), the run never leaves read_data, read_data
\* cannot return (a file is still to be read whenever it has not failed),
\* the run ends only by failing, and no output file is ever written.
C5_BadNameAborts ==
    (\E f \in dir : Underscores(f.name) # 2) =>
        /\ pc \in {"read_data", "failed"}
        /\ pc = "read_data" => pending # {}
        /\ pc = "failed" =>
               err \in {"ValueError: unpack", "EmptyDataError"}
        /\ written = {}

C5_Witness ==
    /\ pc = "failed"
    /\ err = "ValueError: unpack"
    /\ frames # <<>>
    /\ Cardinality(pending) = 2
    /\ written = {}

\* ------------------------------------------------------------- C6
\* C6 (as stated): with an empty directory read_data does not fail; it returns
\* a combined table of zero rows.
C6_EmptyDirReturnsEmptyTable ==
    dir = {} => (pc # "failed" /\ data = <<>>)

\* ------------------------------------------------------------- C7
\* C7 (as stated): once read_data has returned, no step of main changes the
\* number of rows of the combined table or the time, mem, tool, task or file
\* of any of its rows.
C7_RowsImmutable ==
    [][Loaded =>
          /\ Len(data') = Len(data)
          /\ \A i \in 1..Len(data) :
                 /\ data'[i].time = data[i].time
                 /\ data'[i].mem = data[i].mem
                 /\ data'[i].tool = data[i].tool
                 /\ data'[i].task = data[i].task
                 /\ data'[i].file = data[i].file]_vars

\* C7 (amended): once read_data has returned, no step of main changes the
\* number of rows or the time, tool, task or file of any row; the mem of every
\* row is divided by 1000 by the get_data_summary step and changed by no
\* other step.
C7_OnlyMemRescaled ==
    [][Loaded =>
          /\ Len(data') = Len(data)
          /\ \A i \in 1..Len(data) :
                 /\ data'[i].time = data[i].time
                 /\ data'[i].tool = data[i].tool
                 /\ data'[i].task = data[i].task
                 /\ data'[i].file = data[i].file
                 /\ data'[i].mem =
                        IF pc = "get_data_summary" THEN DivBy(data[i].mem, 1000)
                        ELSE data[i].mem]_vars

\* 2,000,000 = 15625 * 2^7 and 2,000 = 125 * 2^4 as float64.
TwoMillion == [nan |-> FALSE, neg |-> FALSE, m |-> <<7433, 1>>, e |-> 7]

TwoThousand == [nan |-> FALSE, neg |-> FALSE, m |-> <<125>>, e |-> 4]

C7_Witness ==
    /\ pc = "done"
    /\ \E i \in 1..Len(data) :
           /\ Origin(i).mem = TwoMillion
           /\ data[i].mem = TwoThousand
           /\ data[i].time = Origin(i).time

\* ------------------------------------------------------------- C8
\* C8 (as stated): once the summary is computed, if every input file holds
\* exactly 11 rows and no file name ends in 'fq', every file contributes 10
\* rows to the combined table, the summary holds one row per distinct triple,
\* and no row has the file label 'zymo_full'.
C8_RowAccounting ==
    (Summarised /\ \A f \in dir : Len(f.rows) = 11 /\ ~FqSuffix(f.name)) =>
        /\ Len(data) = 10 * Cardinality(dir)
        /\ \A f \in dir : Len(Part(f.name, 1)) = 10
        /\ Len(summary) = Cardinality({Triple(data[i]) : i \in 1..Len(data)})
        /\ \A i \in 1..Len(data) :
               data[i].file # <<"z","y","m","o","_","f","u","l","l">>

\* The directory of the three files nanoq_filt_gz, nanoq_stat_gz and
\* filtlong_filt_gz.
ThreeGzFiles ==
    {f.name : f \in dir} =
        { <<"n","a","n","o","q","_","f","i","l","t","_","g","z">>,
          <<"n","a","n","o","q","_","s","t","a","t","_","g","z">>,
          <<"f","i","l","t","l","o","n","g","_","f","i","l","t","_","g","z">> }

\* C8 (amended): once the summary is computed, if every input file holds
\* exactly 11 rows and no file name ends in 'fq', every file contributes 10
\* rows to the combined table, the summary holds one row per distinct triple,
\* and a row has the file label 'zymo_full' only when the third token of its
\* file's name is 'full'; the three files nanoq_filt_gz, nanoq_stat_gz and
\* filtlong_filt_gz give 30 rows, 3 summary rows and no 'zymo_full' row.
C8_RowAccountingAmended ==
    (Summarised /\ \A f \in dir : Len(f.rows) = 11 /\ ~FqSuffix(f.name)) =>
        /\ Len(data) = 10 * Cardinality(dir)
        /\ \A f \in dir : Len(Part(f.name, 1)) = 10
        /\ Len(summary) = Cardinality({Triple(data[i]) : i \in 1..Len(data)})
        /\ \A i \in 1..Len(data) :
               data[i].file = <<"z","y","m","o","_","f","u","l","l">> =>
                   Split(prov[i].name)[3] = <<"f","u","l","l">>
        /\ ThreeGzFiles =>
               /\ Len(data) = 30
               /\ Len(summary) = 3
               /\ \A i \in 1..Len(data) :
                      data[i].file # <<"z","y","m","o","_","f","u","l","l">>

C8_Witness ==
    /\ pc = "done"
    /\ ThreeGzFiles
    /\ \A f \in dir : Len(f.rows) = 11 /\ f.rows[1].mem = NaN
    /\ Len(data) = 30
    /\ Len(summary) = 3

\* ------------------------------------------------------------- C9
\* The rows of the combined table in the group of summary row j.
GroupOf(j) == SelectSeq(data, LAMBDA r : Triple(r) = Triple(summary[j]))

SameTime(G) == \A a \in 1..Len(G) : G[a].time = G[1].time

SdZero == [radicand |-> [nan |-> FALSE, neg |-> FALSE, m |-> <<>>, e |-> 0]]

SdNaN == [radicand |-> [nan |-> TRUE, neg |-> FALSE, m |-> <<>>, e |-> 0]]

\* C9 (as stated): once the summary is computed, for every summary row whose
\* group of k table rows all have one time value v, the mean time is v, and
\* the standard deviation of time is 0 when k > 1 and NaN, not 0, when k = 1.
C9_DegenerateGroup ==
    Summarised =>
        \A j \in 1..Len(summary) :
            SameTime(GroupOf(j)) =>
                /\ summary[j].time = GroupOf(j)[1].time
                /\ Len(GroupOf(j)) > 1 => summary[j].time_sd = SdZero
                /\ Len(GroupOf(j)) = 1 => summary[j].time_sd = SdNaN

\* j * v is a float64: its odd part has at most 53 bits.
MultipleIsFloat(v, j) == BitLen(Exact(FALSE, BigMulSmall(v.m, j), 0).m) <= 53

\* C9 (amended): once the summary is computed, for every summary row whose
\* group of k table rows all have one time value v: when k = 1 the mean time
\* is v and the standard deviation is NaN, not 0; when k > 1 and every
\* multiple j * v, j = 1..k, is a float64, the mean time is v and the standard
\* deviation is 0.
C9_DegenerateGroupExact ==
    Summarised =>
        \A j \in 1..Len(summary) :
            SameTime(GroupOf(j)) =>
                /\ Len(GroupOf(j)) = 1 =>
                       /\ summary[j].time = GroupOf(j)[1].time
                       /\ summary[j].time_sd = SdNaN
                       /\ summary[j].time_sd # SdZero
                /\ (/\ Len(GroupOf(j)) > 1
                    /\ \A k \in 1..Len(GroupOf(j)) : MultipleIsFloat(GroupOf(j)[1].time, k)) =>
                       /\ summary[j].time = GroupOf(j)[1].time
                       /\ summary[j].time_sd = SdZero

C9_Witness ==
    /\ pc = "done"
    /\ \E a, b \in 1..Len(summary) :
           /\ Len(GroupOf(a)) = 10
           /\ SameTime(GroupOf(a))
           /\ summary[a].time_sd = SdZero
           /\ Len(GroupOf(b)) = 1
           /\ summary[b].time_sd = SdNaN

\* ------------------------------------------------------------- C10
\* C10: between the return of read_data and get_data_summary every row holds
\* the mem of its input line; from get_data_summary on every row holds that
\* value divided by 1000, once (2,000,000 has become 2,000), and the time of
\* its input line unchanged; a group whose input lines all hold 2,000,000 has
\* a summary mean of 2,000.
C10_MemRescaledOnce ==
    /\ pc = "get_data_summary" =>
           \A i \in 1..Len(data) : data[i].mem = Origin(i).mem
    /\ Summarised =>
           /\ \A i \in 1..Len(data) :
                  /\ data[i].time = Origin(i).time
                  /\ data[i].mem = DivBy(Origin(i).mem, 1000)
                  /\ Origin(i).mem = TwoMillion => data[i].mem = TwoThousand
           /\ \A j \in 1..Len(summary) :
                  (\A i \in 1..Len(data) :
                       Triple(data[i]) = Triple(summary[j]) => Origin(i).mem = TwoMillion)
                      => summary[j].mem = TwoThousand

C10_Witness ==
    /\ pc = "done"
    /\ \E j \in 1..Len(summary) : summary[j].mem = TwoThousand
    /\ \E i \in 1..Len(data) :
           Origin(i).mem = TwoMillion /\ data[i].time = Origin(i).time

====
